---------------------------- MODULE Spec2Model ----------------------------
(***************************************************************************)
(* A model of truffleHog (src/truffleHog/truffleHog.py): the string        *)
(* extraction and entropy test of the Entropy Detector, the Pattern        *)
(* Detector, the per-diff Detection Pipeline (diff_worker), and the        *)
(* History Walker with repository acquisition, persistence and cleanup     *)
(* (find_strings).                                                         *)
(*                                                                         *)
(* Representation.  A character is a one-character string, a word a tuple  *)
(* of characters, a diff text the tuple of its whitespace-separated words  *)
(* (the nested line/word loops of find_entropy visit exactly these words   *)
(* in order).  A commit is identified by a number standing for its hexsha; *)
(* 0 stands for None.  The display-only fields of a Finding (diff,         *)
(* printDiff) are not part of the model.  Entropy is computed in fixed     *)
(* point, in thousandths of a bit.                                         *)
(***************************************************************************)
EXTENDS Integers, Sequences, FiniteSets, TLC

(***************************************************************************)
(* State                                                                   *)
(***************************************************************************)
VARIABLES
    \* get_strings_of_set (specification SpecStrings): arguments and result
    s_word, s_char_set, s_threshold, s_strings, spc,
    \* diff_worker and regex_check (specification SpecDetect): the diff,
    \* the custom rules and the result
    w_diff, w_found, dpc,
    \* the repository: parent of each commit, head of each branch, content
    \* of the file in each commit
    parents, branches, content,
    \* arguments of find_strings
    git_url, force_clone, since_commit, max_depth, do_entropy, do_regex,
    custom_regexes,
    \* locals of find_strings
    pc, project_path, project_path_created, already_searched, output,
    remote_branch, it, since_commit_reached, prev_commit, curr_commit,
    commitHash, error,
    \* the file system: directories that exist, records written
    dirs, records,
    \* history: the diffs computed, the Findings returned by diff_worker,
    \* the position in `issues` of the Finding whose write failed, the path
    \* the last step took
    diffs, issues, failed, lastStep

stringVars == <<s_word, s_char_set, s_threshold, s_strings, spc>>
detectVars == <<w_diff, w_found, dpc>>
repoVars   == <<parents, branches, content>>
argVars    == <<git_url, force_clone, since_commit, max_depth, do_entropy,
                do_regex, custom_regexes>>
scanVars   == <<pc, project_path, project_path_created, already_searched,
                output, remote_branch, it, since_commit_reached, prev_commit,
                curr_commit, commitHash, error, dirs, records, diffs, issues,
                failed, lastStep>>
vars == <<stringVars, detectVars, repoVars, argVars, scanVars>>

\* BASE64_CHARS, truffleHog.py line 78
BASE64_CHARS ==
    <<"A","B","C","D","E","F","G","H","I","J","K","L","M","N","O","P","Q",
    "R","S","T","U","V","W","X","Y","Z","a","b","c","d","e","f","g","h","i",
    "j","k","l","m","n","o","p","q","r","s","t","u","v","w","x","y","z","0",
    "1","2","3","4","5","6","7","8","9","+","/","=">>

\* HEX_CHARS, truffleHog.py line 79
HEX_CHARS ==
    <<"1","2","3","4","5","6","7","8","9","0","a","b","c","d","e","f","A",
    "B","C","D","E","F">>

\* round(1000 * log2(k)) for k = 1 .. 40: the table behind math.log(p_x, 2)
Log2Milli ==
    <<0,1000,1585,2000,2322,2585,2807,3000,3170,3322,3459,3585,3700,3807,
    3907,4000,4087,4170,4248,4322,4392,4459,4524,4585,4644,4700,4755,4807,
    4858,4907,4954,5000,5044,5087,5129,5170,5209,5248,5285,5322>>

(* Sample words of the diff texts *)
\* 28 characters, 27 distinct: Base64 entropy 4.74; no hex run; matches the AWS rule
SecretWord ==
    <<"A","K","I","A","Z","9","Y","8","X","7","W","6","V","5","U","4","T",
    "3","S","2","R","1","Q","0","P","O","N","M">>

\* 20 characters: too short for the entropy detector; matches the AWS rule
KeyWord ==
    <<"A","K","I","A","0","1","2","3","4","5","6","7","8","9","B","C","D",
    "E","F","G">>

\* a second 20-character AWS key
KeyWord2 ==
    <<"A","K","I","A","G","F","E","D","C","B","9","8","7","6","5","4","3",
    "2","1","0">>

\* 24 hex characters: hex entropy 4.42 (> 3), Base64 entropy 4.42 (< 4.5)
HexWord ==
    <<"0","a","1","b","2","c","3","d","4","e","5","f","6","A","7","B","8",
    "C","9","D","0","E","1","F">>

\* 29 Base64 characters (entropy 4.72) holding a 24-character hex run
MixWord ==
    <<"Z","q","X","w","0","a","1","b","2","c","3","d","4","e","5","f","6",
    "A","7","B","8","C","9","D","0","E","1","F","g">>

\* 24 equal characters: a run of both alphabets, entropy 0
LowWord ==
    <<"a","a","a","a","a","a","a","a","a","a","a","a","a","a","a","a","a",
    "a","a","a","a","a","a","a">>

\* a short word
CleanWord ==
    <<"h","e","l","l","o">>

\* matches the custom rule
TokWord ==
    <<"t","o","k","4","2">>

BinaryWord ==
    <<"B","i","n","a","r","y">>

FilesWord ==
    <<"f","i","l","e","s">>

DifferWord ==
    <<"d","i","f","f","e","r">>

(***************************************************************************)
(* Bounds of the model                                                     *)
(***************************************************************************)
MaxWordLen == 4
MaxThreshold == 2
MaxBlobs == 2
MaxCommits == 3
MaxBranches == 2
MaxDepth == 1

(***************************************************************************)
(* Program constants                                                       *)
(***************************************************************************)
DefaultThreshold == 20
B64CutoffMilli == 4500
HexCutoffMilli == 3000
DefaultMaxDepth == 1000000

None == 0
NULL_TREE == 0

(***************************************************************************)
(* get_strings_of_set                                                      *)
(***************************************************************************)
\* `char in char_set`, char_set being a string
InCharSet(char, char_set) == \E k \in 1..Len(char_set) : char_set[k] = char

\* LongEnough with the comparison off by one: a run as long as the
\* threshold is kept too
LongEnough_AtLeast(count, threshold) == count >= threshold

\* `count > threshold`
LongEnough(count, threshold) == count > threshold

RECURSIVE get_strings_loop(_, _, _, _, _, _, _)
get_strings_loop(word, char_set, threshold, i, count, letters, strings) ==
    IF i > Len(word)
    THEN IF LongEnough(count, threshold) THEN Append(strings, letters) ELSE strings
    ELSE IF InCharSet(word[i], char_set)
         THEN get_strings_loop(word, char_set, threshold, i + 1, count + 1,
                               Append(letters, word[i]), strings)
         ELSE get_strings_loop(word, char_set, threshold, i + 1, 0, <<>>,
                               IF LongEnough(count, threshold)
                               THEN Append(strings, letters) ELSE strings)

get_strings_of_set(word, char_set, threshold) ==
    get_strings_loop(word, char_set, threshold, 1, 0, <<>>, <<>>)

(***************************************************************************)
(* shannon_entropy, in thousandths of a bit                                *)
(***************************************************************************)
\* data.count(x)
Count(data, x) == Cardinality({i \in 1..Len(data) : data[i] = x})

\* sum over the characters x = iterator[k..] of -p_x * log2(p_x), times
\* 1000 * len(data)
RECURSIVE EntropySum(_, _, _)
EntropySum(data, iterator, k) ==
    IF k > Len(iterator) THEN 0
    ELSE LET c == Count(data, iterator[k])
         IN  (IF c > 0 THEN c * (Log2Milli[Len(data)] - Log2Milli[c]) ELSE 0)
             + EntropySum(data, iterator, k + 1)

shannon_entropy(data, iterator) ==
    IF Len(data) = 0 THEN 0
    ELSE EntropySum(data, iterator, 1) \div Len(data)

(***************************************************************************)
(* Commits, blobs and Findings                                             *)
(***************************************************************************)
\* attributes of a commit object
Hexsha(c) == c
Message(c) == <<"message", c>>
CommittedDate(c) == 1500000000 + c

\* datetime.fromtimestamp(...).strftime('%Y-%m-%d %H:%M:%S')
CommitTime(c) == <<"date", CommittedDate(c)>>

\* `blob.b_path if blob.b_path else blob.a_path`
BlobPath(blob) == IF blob.b_path # "" THEN blob.b_path ELSE blob.a_path

\* StampHash taking the hash handed in as commitHash, which is the hash of
\* the older commit of the pair
StampHash_Param(prev, hash) == hash

\* `prev_commit.hexsha`: the commitHash parameter is not used
StampHash(prev, hash) == Hexsha(prev)

Finding(commit_time, branch_name, prev, blob, hash, stringsFound, reason) ==
    [date |-> commit_time, path |-> BlobPath(blob), branch |-> branch_name,
     commit |-> Message(prev), stringsFound |-> stringsFound,
     commitHash |-> StampHash(prev, hash), reason |-> reason]

(***************************************************************************)
(* find_entropy                                                            *)
(***************************************************************************)
\* the strings of `strings` whose entropy over `iterator` exceeds `cutoff`
RECURSIVE Flagged(_, _, _, _)
Flagged(strings, iterator, cutoff, k) ==
    IF k > Len(strings) THEN <<>>
    ELSE (IF shannon_entropy(strings[k], iterator) > cutoff
          THEN <<strings[k]>> ELSE <<>>)
         \o Flagged(strings, iterator, cutoff, k + 1)

\* the body of `for word in line.split()`: what one word adds to stringsFound
WordStringsFound(word) ==
    Flagged(get_strings_of_set(word, BASE64_CHARS, DefaultThreshold),
            BASE64_CHARS, B64CutoffMilli, 1)
    \o Flagged(get_strings_of_set(word, HEX_CHARS, DefaultThreshold),
               HEX_CHARS, HexCutoffMilli, 1)

\* the words the texts of the model are made of, and what each adds to
\* stringsFound (WordStringsFound, computed once for each word)
SampleWords ==
    {SecretWord, KeyWord, KeyWord2, HexWord, MixWord, LowWord, CleanWord,
     TokWord, BinaryWord, FilesWord, DifferWord}

WordStringsFoundOf == [w \in SampleWords |-> WordStringsFound(w)]

\* `for line in lines: for word in line.split()`
RECURSIVE EntropyStringsFound(_, _)
EntropyStringsFound(printableDiff, k) ==
    IF k > Len(printableDiff) THEN <<>>
    ELSE WordStringsFoundOf[printableDiff[k]]
         \o EntropyStringsFound(printableDiff, k + 1)

\* returns <<>> for None, else the one-element tuple of the Finding
find_entropy(printableDiff, commit_time, branch_name, prev, blob, hash) ==
    LET stringsFound == EntropyStringsFound(printableDiff, 1)
    IN  IF Len(stringsFound) > 0
        THEN <<Finding(commit_time, branch_name, prev, blob, hash,
                       stringsFound, "High Entropy")>>
        ELSE <<>>

(***************************************************************************)
(* regex_check                                                             *)
(* A rule is a name with a pattern `lit[cls]{n}`: a literal followed by    *)
(* exactly n characters of a class.                                        *)
(***************************************************************************)
UpperDigits ==
    {"A","B","C","D","E","F","G","H","I","J","K","L","M","N","O","P","Q",
     "R","S","T","U","V","W","X","Y","Z","0","1","2","3","4","5","6","7",
     "8","9"}

Digits == {"0","1","2","3","4","5","6","7","8","9"}

\* the built-in rule set (truffleHogRegexes.regexChecks.regexes)
regexes ==
    <<[name |-> "AWS API Key", lit |-> <<"A","K","I","A">>,
       cls |-> UpperDigits, n |-> 16]>>

\* a rule set loaded from a --rules file
CustomRules ==
    <<[name |-> "Token", lit |-> <<"t","o","k">>, cls |-> Digits, n |-> 2]>>

MatchLen(rule) == Len(rule.lit) + rule.n

MatchAt(rule, w, i) ==
    /\ i + MatchLen(rule) - 1 <= Len(w)
    /\ \A j \in 1..Len(rule.lit) : w[i + j - 1] = rule.lit[j]
    /\ \A j \in 1..rule.n : w[i + Len(rule.lit) + j - 1] \in rule.cls

\* the non-overlapping matches of the rule in one word, leftmost first
RECURSIVE FindAllWord(_, _, _)
FindAllWord(rule, w, i) ==
    IF i > Len(w) THEN <<>>
    ELSE IF MatchAt(rule, w, i)
         THEN <<SubSeq(w, i, i + MatchLen(rule) - 1)>>
              \o FindAllWord(rule, w, i + MatchLen(rule))
         ELSE FindAllWord(rule, w, i + 1)

\* secret_regexes[key].findall(printableDiff)
RECURSIVE findall(_, _, _)
findall(rule, printableDiff, k) ==
    IF k > Len(printableDiff) THEN <<>>
    ELSE FindAllWord(rule, printableDiff[k], 1) \o findall(rule, printableDiff, k + 1)

\* `for found_string in found_strings`: one Finding for each match, each
\* carrying all the matches of the rule
RuleFindings(rule, found_strings, commit_time, branch_name, prev, blob, hash) ==
    [m \in 1..Len(found_strings) |->
        Finding(commit_time, branch_name, prev, blob, hash,
                found_strings, rule.name)]

RECURSIVE RegexLoop(_, _, _, _, _, _, _, _)
RegexLoop(secret_regexes, k, printableDiff, commit_time, branch_name, prev, blob, hash) ==
    IF k > Len(secret_regexes) THEN <<>>
    ELSE RuleFindings(secret_regexes[k], findall(secret_regexes[k], printableDiff, 1),
                      commit_time, branch_name, prev, blob, hash)
         \o RegexLoop(secret_regexes, k + 1, printableDiff, commit_time,
                      branch_name, prev, blob, hash)

regex_check(printableDiff, commit_time, branch_name, prev, blob, hash, custom) ==
    LET secret_regexes == IF Len(custom) > 0 THEN custom ELSE regexes
    IN  RegexLoop(secret_regexes, 1, printableDiff, commit_time, branch_name,
                  prev, blob, hash)

(***************************************************************************)
(* diff_worker                                                             *)
(***************************************************************************)
\* printableDiff.startswith("Binary files")
IsBinary(printableDiff) ==
    /\ Len(printableDiff) >= 2
    /\ printableDiff[1] = BinaryWord
    /\ printableDiff[2] = FilesWord

\* BlobIssues with the detectors in the other order: the pattern Findings
\* come before the entropy Finding
BlobIssues_Swapped(blob, prev, branch_name, hash, custom, do_e, do_r) ==
    LET printableDiff == blob.diff
        commit_time   == CommitTime(prev)
    IN  IF IsBinary(printableDiff) THEN <<>>
        ELSE (IF do_r
              THEN regex_check(printableDiff, commit_time, branch_name,
                               prev, blob, hash, custom)
              ELSE <<>>)
             \o (IF do_e
                 THEN find_entropy(printableDiff, commit_time, branch_name,
                                   prev, blob, hash)
                 ELSE <<>>)

\* the body of `for blob in diff`: the foundIssues of one blob
BlobIssues(blob, prev, branch_name, hash, custom, do_e, do_r) ==
    LET printableDiff == blob.diff
        commit_time   == CommitTime(prev)
    IN  IF IsBinary(printableDiff) THEN <<>>
        ELSE (IF do_e
              THEN find_entropy(printableDiff, commit_time, branch_name,
                                prev, blob, hash)
              ELSE <<>>)
             \o (IF do_r
                 THEN regex_check(printableDiff, commit_time, branch_name,
                                  prev, blob, hash, custom)
                 ELSE <<>>)

RECURSIVE DiffLoop(_, _, _, _, _, _, _, _)
DiffLoop(diff, k, prev, branch_name, hash, custom, do_e, do_r) ==
    IF k > Len(diff) THEN <<>>
    ELSE BlobIssues(diff[k], prev, branch_name, hash,
                    custom, do_e, do_r)
         \o DiffLoop(diff, k + 1, prev, branch_name, hash,
                     custom, do_e, do_r)

\* prev_commit.committed_date with prev_commit None: raised at the first
\* blob that is not binary
diff_worker_raises(diff, prev) ==
    /\ prev = None
    /\ \E k \in 1..Len(diff) : ~IsBinary(diff[k].diff)

diff_worker(diff, curr, prev, branch_name, hash, custom, do_e, do_r) ==
    DiffLoop(diff, 1, prev, branch_name, hash, custom, do_e, do_r)

(***************************************************************************)
(* clone_git_repo                                                          *)
(* An address is the tuple of its parts around "://": <<scheme, "://",     *)
(* uri>>, or <<path>> for a bare path.                                     *)
(***************************************************************************)
RemoteUrl == <<"https", "://", "github.com/dxa4481/truffleHog.git">>
FileUrl   == <<"file", "://", "/repo">>
BarePath  == <<"/repo">>
TempClone == "/tmp/clone"

\* `'://' in git_url`
HasScheme(url) == \E k \in 1..Len(url) : url[k] = "://"

\* scheme, uri = git_url.split('://'), or ('file', git_url)
UrlScheme(url) == IF HasScheme(url) THEN url[1] ELSE "file"
UrlUri(url) == IF HasScheme(url) THEN url[3] ELSE url[1]

\* UsedInPlace without the force flag
UsedInPlace_IgnoreForce(scheme, force) == scheme = "file"

\* `scheme == 'file' and not force`
UsedInPlace(scheme, force) == scheme = "file" /\ ~force

\* returns <<project_path, project_path_created>>
clone_git_repo(url, force) ==
    IF UsedInPlace(UrlScheme(url), force)
    THEN <<UrlUri(url), FALSE>>
    ELSE <<TempClone, TRUE>>

(***************************************************************************)
(* handle_results                                                          *)
(* writeFails = 0: every write succeeds; writeFails = k: the write of the  *)
(* k-th Finding of the call raises.                                        *)
(***************************************************************************)
\* Persisted with each write isolated: a failed write is skipped and the
\* loop goes on
Persisted_BestEffort(foundIssues, writeFails) ==
    IF writeFails = 0 THEN foundIssues
    ELSE SubSeq(foundIssues, 1, writeFails - 1)
         \o SubSeq(foundIssues, writeFails + 1, Len(foundIssues))

\* the Findings whose record the loop of handle_results writes
Persisted(foundIssues, writeFails) ==
    IF writeFails = 0 THEN foundIssues
    ELSE SubSeq(foundIssues, 1, writeFails - 1)

\* the result paths appended to output["foundIssues"]: one fresh name
\* (uuid4) for each record written, here the record's number
NewPaths(written, k) == [i \in 1..k |-> written + i]

\* curr_commit and commitHash before their first assignment
Unbound == -1

(***************************************************************************)
(* The repository                                                          *)
(***************************************************************************)
Commits == 1..MaxCommits
Root == 1

\* the commits from c back to the root
RECURSIVE Ancestry(_)
Ancestry(c) == IF c = None THEN <<>> ELSE <<c>> \o Ancestry(parents[c])

Min(a, b) == IF a < b THEN a ELSE b

\* list(repo.iter_commits(branch_name, max_count=max_count))
iter_commits(branch_name, max_count) ==
    LET all == Ancestry(branches[branch_name])
    IN  SubSeq(all, 1, Min(max_count, Len(all)))

\* the text of the file
FileText(kind) == IF kind = "secret" THEN <<SecretWord>> ELSE <<CleanWord>>

\* a.diff(b, create_patch=True): the file is in the diff if it differs, and
\* its patch shows the lines of both sides
CommitDiff(a, b) ==
    IF b = NULL_TREE
    THEN <<[a_path |-> "f", b_path |-> "f", diff |-> FileText(content[a])]>>
    ELSE IF content[a] = content[b] THEN <<>>
         ELSE <<[a_path |-> "f", b_path |-> "f",
                 diff |-> FileText(content[a]) \o FileText(content[b])]>>

\* DiffHash of the current commit alone: two pairs that end in the same
\* commit get the same key
DiffHash_CurrOnly(prev, curr) == <<curr, curr>>

\* hashlib.md5((str(prev_commit) + str(curr_commit)).encode('utf-8')).digest():
\* the two hexshas have a fixed length, so the digest stands for the ordered
\* pair (collisions of md5 apart)
DiffHash(prev, curr) == <<prev, curr>>

\* Searched without the add: the hash of a scanned pair is not recorded
Searched_NotRecorded(searched, diff_hash) == searched

\* already_searched.add(diff_hash)
Searched(searched, diff_hash) == searched \cup {diff_hash}

(***************************************************************************)
(* Initial states                                                          *)
(***************************************************************************)
IdleStrings ==
    /\ s_word = <<>> /\ s_char_set = <<>> /\ s_threshold = 0
    /\ s_strings = <<>> /\ spc = "idle"

IdleDetect == w_diff = <<>> /\ w_found = <<>> /\ dpc = "idle"

\* the commits some branch reaches
Reachable(par, heads) ==
    LET RECURSIVE Anc(_)
        Anc(c) == IF c = None THEN {} ELSE {c} \cup Anc(par[c])
    IN  UNION {Anc(heads[b]) : b \in 1..Len(heads)}

\* a history with one root: the parent of a commit is an older commit;
\* a commit no branch reaches plays no part and is left plain
Repositories ==
    /\ parents \in [Commits -> 0..MaxCommits]
    /\ \A c \in Commits : IF c = Root THEN parents[c] = None
                           ELSE parents[c] \in 1..(c - 1)
    /\ branches \in UNION {[1..n -> Commits] : n \in 1..MaxBranches}
    /\ content \in [Commits -> {"clean", "secret"}]
    /\ \A c \in Commits \ Reachable(parents, branches) :
           content[c] = "clean" /\ parents[c] = c - 1

Depths == 0..MaxDepth \cup {DefaultMaxDepth}

\* the scan reads the content of the commits its walks visit only: the
\* content of a commit beyond the depth of every walk is left plain
PlainBeyondDepth ==
    \A c \in Commits :
        (\A b \in 1..Len(branches) :
            \A k \in 1..Len(iter_commits(b, max_depth)) :
                iter_commits(b, max_depth)[k] # c)
        => content[c] = "clean"

\* the locals of find_strings at its entry
ScanEntry ==
    /\ pc = "start"
    /\ project_path = "" /\ project_path_created = FALSE
    /\ already_searched = {} /\ output = [foundIssues |-> <<>>]
    /\ remote_branch = 0 /\ it = 0
    /\ since_commit_reached = FALSE /\ prev_commit = None
    /\ curr_commit = Unbound /\ commitHash = Unbound /\ error = ""
    /\ dirs = {"/repo"} /\ records = <<>>
    /\ diffs = <<>> /\ issues = <<>> /\ failed = 0 /\ lastStep = ""

\* <<do_entropy, do_regex>>: entropy only (the default), both, pattern only
Detectors == {<<TRUE, FALSE>>, <<TRUE, TRUE>>, <<FALSE, TRUE>>}

\* a scan of a remote repository: every history, since commit, depth and
\* choice of detectors
Init ==
    /\ IdleStrings /\ IdleDetect
    /\ Repositories
    /\ git_url = RemoteUrl
    /\ force_clone = FALSE
    /\ since_commit \in {None} \cup Commits
    /\ max_depth \in Depths
    /\ PlainBeyondDepth
    /\ \E det \in Detectors : do_entropy = det[1] /\ do_regex = det[2]
    /\ custom_regexes = <<>>
    /\ ScanEntry

\* a scan of every kind of address, with and without force, of a history
\* without forks, with and without a since commit
InitAcquire ==
    /\ IdleStrings /\ IdleDetect
    /\ Repositories
    /\ \A c \in Commits : parents[c] = c - 1
    /\ git_url \in {RemoteUrl, FileUrl, BarePath}
    /\ force_clone \in BOOLEAN
    /\ since_commit \in {None} \cup Commits
    /\ max_depth \in Depths
    /\ PlainBeyondDepth
    /\ do_entropy = TRUE /\ do_regex = FALSE
    /\ custom_regexes = <<>>
    /\ ScanEntry

(***************************************************************************)
(* find_strings                                                            *)
(***************************************************************************)
idleVars == <<stringVars, detectVars, repoVars, argVars>>

\* lines 307-312
Acquire ==
    /\ pc = "start"
    /\ LET r == clone_git_repo(git_url, force_clone)
       IN  /\ project_path' = r[1]
           /\ project_path_created' = r[2]
           /\ dirs' = IF r[2] THEN dirs \cup {r[1]} ELSE dirs
    /\ output' = [foundIssues |-> <<>>]
    /\ already_searched' = {}
    /\ pc' = "branches"
    /\ lastStep' = "acquire"
    /\ UNCHANGED <<idleVars, remote_branch, it, since_commit_reached,
                   prev_commit, curr_commit, commitHash, error, records,
                   diffs, issues, failed>>

\* lines 314-317: the next branch of repo.remotes.origin.fetch()
NextBranch ==
    /\ pc = "branches"
    /\ remote_branch < Len(branches)
    /\ remote_branch' = remote_branch + 1
    /\ since_commit_reached' = FALSE
    /\ prev_commit' = None
    /\ it' = 1
    /\ pc' = "commits"
    /\ lastStep' = "branch"
    /\ UNCHANGED <<idleVars, project_path, project_path_created,
                   already_searched, output, curr_commit, commitHash, error,
                   dirs, records, diffs, issues, failed>>

\* the commits the loop of line 318 visits on the current branch
Walk == iter_commits(remote_branch, max_depth)

\* lines 320-321, for the commit c the loop is at
Reached(c) == since_commit_reached \/ Hexsha(c) = since_commit

\* what every iteration that ends in `continue` or reaches line 346 does
Advance(c, step) ==
    /\ curr_commit' = c
    /\ commitHash' = Hexsha(c)
    /\ since_commit_reached' = Reached(c)
    /\ prev_commit' = c
    /\ it' = it + 1
    /\ lastStep' = step

\* lines 322-324
SinceSkip ==
    /\ pc = "commits" /\ it <= Len(Walk)
    /\ since_commit # None /\ Reached(Walk[it])
    /\ Advance(Walk[it], "since_skip")
    /\ UNCHANGED <<idleVars, pc, project_path, project_path_created,
                   already_searched, output, remote_branch, error, dirs,
                   records, diffs, issues, failed>>

\* lines 331-333
NewestCommit ==
    /\ pc = "commits" /\ it <= Len(Walk)
    /\ ~(since_commit # None /\ Reached(Walk[it]))
    /\ prev_commit = None
    /\ Advance(Walk[it], "newest")
    /\ UNCHANGED <<idleVars, pc, project_path, project_path_created,
                   already_searched, output, remote_branch, error, dirs,
                   records, diffs, issues, failed>>

\* lines 334-336
SeenSkip ==
    /\ pc = "commits" /\ it <= Len(Walk)
    /\ ~(since_commit # None /\ Reached(Walk[it]))
    /\ prev_commit # None
    /\ DiffHash(prev_commit, Walk[it]) \in already_searched
    /\ Advance(Walk[it], "seen_skip")
    /\ UNCHANGED <<idleVars, pc, project_path, project_path_created,
                   already_searched, output, remote_branch, error, dirs,
                   records, diffs, issues, failed>>

\* handle_results(output, output_dir, foundIssues), the write of the
\* writeFails-th Finding failing (0: none)
HandleResults(foundIssues, writeFails) ==
    LET written == Persisted(foundIssues, writeFails)
    IN  /\ records' = records \o written
        /\ output' = [output EXCEPT !.foundIssues =
                          @ \o NewPaths(Len(records), Len(written))]
        /\ issues' = issues \o foundIssues
        /\ failed' = IF writeFails = 0 THEN 0 ELSE Len(issues) + writeFails
        /\ error' = IF writeFails = 0 THEN error ELSE "IOError"

\* lines 337-346
ScanPair ==
    /\ pc = "commits" /\ it <= Len(Walk)
    /\ ~(since_commit # None /\ Reached(Walk[it]))
    /\ prev_commit # None
    /\ DiffHash(prev_commit, Walk[it]) \notin already_searched
    /\ LET c  == Walk[it]
           d  == CommitDiff(prev_commit, c)
           fi == diff_worker(d, c, prev_commit, remote_branch, Hexsha(c),
                             custom_regexes, do_entropy, do_regex)
       IN  /\ diffs' = Append(diffs, <<prev_commit, c>>)
           /\ already_searched' = Searched(already_searched, DiffHash(prev_commit, c))
           /\ curr_commit' = c
           /\ commitHash' = Hexsha(c)
           /\ since_commit_reached' = Reached(c)
           /\ \E writeFails \in 0..Len(fi) :
                 /\ HandleResults(fi, writeFails)
                 /\ IF writeFails = 0
                    THEN /\ prev_commit' = c /\ it' = it + 1 /\ pc' = pc
                    ELSE /\ prev_commit' = prev_commit /\ it' = it
                         /\ pc' = "raised"
    /\ lastStep' = "scan"
    /\ UNCHANGED <<idleVars, project_path, project_path_created,
                   remote_branch, dirs>>

\* lines 347-352, after the loop of the current branch
FirstCommit ==
    /\ pc = "commits" /\ it > Len(Walk)
    /\ lastStep' = "first"
    /\ IF curr_commit = Unbound
       THEN \* curr_commit was never assigned: UnboundLocalError
            /\ pc' = "raised" /\ error' = "UnboundLocalError"
            /\ UNCHANGED <<records, output, issues, failed, diffs>>
       ELSE LET d == CommitDiff(curr_commit, NULL_TREE)
            IN  /\ diffs' = Append(diffs, <<curr_commit, NULL_TREE>>)
                /\ IF diff_worker_raises(d, prev_commit)
                   THEN \* prev_commit.committed_date of None: AttributeError
                        /\ pc' = "raised" /\ error' = "AttributeError"
                        /\ UNCHANGED <<records, output, issues, failed>>
                   ELSE LET fi == diff_worker(d, curr_commit, prev_commit,
                                              remote_branch, commitHash,
                                              custom_regexes, do_entropy,
                                              do_regex)
                        IN  \E writeFails \in 0..Len(fi) :
                               /\ HandleResults(fi, writeFails)
                               /\ pc' = IF writeFails = 0 THEN "branches"
                                        ELSE "raised"
    /\ UNCHANGED <<idleVars, project_path, project_path_created,
                   already_searched, remote_branch, it, since_commit_reached,
                   prev_commit, curr_commit, commitHash, dirs>>

\* lines 353-360: shutil.rmtree(project_path) if it was created; return
Finish ==
    /\ pc = "branches"
    /\ remote_branch = Len(branches)
    /\ output' = [foundIssues |-> output.foundIssues,
                  project_path |-> project_path, clone_uri |-> git_url]
    /\ dirs' = IF project_path_created THEN dirs \ {project_path} ELSE dirs
    /\ pc' = "done"
    /\ lastStep' = "finish"
    /\ UNCHANGED <<idleVars, project_path, project_path_created,
                   already_searched, remote_branch, it, since_commit_reached,
                   prev_commit, curr_commit, commitHash, error, records,
                   diffs, issues, failed>>

Next ==
    \/ Acquire
    \/ NextBranch
    \/ SinceSkip
    \/ NewestCommit
    \/ SeenSkip
    \/ ScanPair
    \/ FirstCommit
    \/ Finish

Spec == Init /\ [][Next]_vars

SpecAcquire == InitAcquire /\ [][Next]_vars

(***************************************************************************)
(* get_strings_of_set applied to every word over a small alphabet          *)
(***************************************************************************)
Chars == {"a", "b", "x"}
CharSets == {<<>>, <<"a">>, <<"a", "b">>, <<"a", "b", "x">>}
Words == UNION {[1..n -> Chars] : n \in 0..MaxWordLen}

\* the repository and the arguments of a scan that is not run
RepoIdle ==
    /\ parents = [c \in Commits |-> c - 1]
    /\ branches = <<Root>>
    /\ content = [c \in Commits |-> "clean"]
    /\ git_url = RemoteUrl /\ force_clone = FALSE
    /\ since_commit = None /\ max_depth = DefaultMaxDepth

ScanIdle ==
    /\ pc = "idle"
    /\ project_path = "" /\ project_path_created = FALSE
    /\ already_searched = {} /\ output = [foundIssues |-> <<>>]
    /\ it = 0 /\ since_commit_reached = FALSE /\ error = ""
    /\ dirs = {"/repo"} /\ records = <<>>
    /\ diffs = <<>> /\ issues = <<>> /\ failed = 0 /\ lastStep = ""

InitStrings ==
    /\ s_word \in Words
    /\ s_char_set \in CharSets
    /\ s_threshold \in 0..MaxThreshold
    /\ s_strings = <<>>
    /\ spc = "call"
    /\ IdleDetect /\ RepoIdle /\ ScanIdle
    /\ do_entropy = TRUE /\ do_regex = FALSE /\ custom_regexes = <<>>
    /\ remote_branch = 0 /\ prev_commit = None
    /\ curr_commit = Unbound /\ commitHash = Unbound

GetStrings ==
    /\ spc = "call"
    /\ s_strings' = get_strings_of_set(s_word, s_char_set, s_threshold)
    /\ spc' = "return"
    /\ UNCHANGED <<s_word, s_char_set, s_threshold, detectVars, repoVars,
                   argVars, scanVars>>

NextStrings == GetStrings

SpecStrings == InitStrings /\ [][NextStrings]_vars

(***************************************************************************)
(* diff_worker and regex_check applied to diffs of sample texts            *)
(***************************************************************************)
SampleTexts ==
    {<<CleanWord>>,
     <<SecretWord>>,
     <<KeyWord, CleanWord, KeyWord2>>,
     <<HexWord>>,
     <<MixWord, TokWord>>,
     <<LowWord, TokWord, TokWord>>,
     <<BinaryWord, FilesWord, SecretWord, DifferWord>>}

\* the paths of the k-th blob of a diff: a renamed file, a file with no
\* b_path, then files that keep their path
APaths == <<"old1", "f2", "f3", "f4">>
BPaths == <<"new1", "", "f3", "f4">>

MakeDiff(texts) ==
    [k \in 1..Len(texts) |->
        [a_path |-> APaths[k], b_path |-> BPaths[k], diff |-> texts[k]]]

SampleDiffs ==
    {MakeDiff(ts) : ts \in UNION {[1..n -> SampleTexts] : n \in 0..MaxBlobs}}

InitDetect ==
    /\ IdleStrings
    /\ w_diff \in SampleDiffs
    /\ w_found = <<>>
    /\ dpc = "call"
    /\ RepoIdle /\ ScanIdle
    /\ do_entropy \in BOOLEAN /\ do_regex \in BOOLEAN
    /\ custom_regexes \in {<<>>, CustomRules}
    /\ remote_branch = 1 /\ prev_commit = 2
    /\ curr_commit = 1 /\ commitHash = 1

CallDiffWorker ==
    /\ dpc = "call"
    /\ w_found' = diff_worker(w_diff, curr_commit, prev_commit, remote_branch,
                              commitHash, custom_regexes, do_entropy, do_regex)
    /\ dpc' = "diff_worker"
    /\ UNCHANGED <<w_diff, stringVars, repoVars, argVars, scanVars>>

\* regex_check on the first blob of the diff
CallRegexCheck ==
    /\ dpc = "call"
    /\ Len(w_diff) >= 1
    /\ w_found' = regex_check(w_diff[1].diff, CommitTime(prev_commit),
                              remote_branch, prev_commit, w_diff[1],
                              commitHash, custom_regexes)
    /\ dpc' = "regex_check"
    /\ UNCHANGED <<w_diff, stringVars, repoVars, argVars, scanVars>>

NextDetect ==
    \/ CallDiffWorker
    \/ CallRegexCheck

SpecDetect == InitDetect /\ [][NextDetect]_vars

(***************************************************************************)
(* Properties                                                              *)
(***************************************************************************)
AncestorsOf(c) == {Ancestry(c)[k] : k \in 1..Len(Ancestry(c))}
Visited(b) == {iter_commits(b, max_depth)[k] :
                  k \in 1..Len(iter_commits(b, max_depth))}
ReachableCommits == UNION {AncestorsOf(branches[b]) : b \in 1..Len(branches)}
StampedWith(c) == {k \in 1..Len(issues) : issues[k].commitHash = Hexsha(c)}

\* the loop is at a commit pair whose dedup key is in the seen set
SeenPairAhead ==
    /\ pc = "commits" /\ it <= Len(Walk)
    /\ prev_commit # None
    /\ DiffHash(prev_commit, Walk[it]) \in already_searched

\* C1: within one scan no ordered commit pair (previous, current) goes
\* through diff extraction and detection more than once, whatever the
\* branches share; and a step taken at a pair whose dedup key is already in
\* the seen set computes no diff, produces and persists no Finding and only
\* moves the previous-commit pointer to the current commit.
C1_PairScannedOnce ==
    [][/\ \A i, j \in 1..Len(diffs') :
            (i < j /\ diffs'[i] = diffs'[j]) => diffs'[i][2] = NULL_TREE
       /\ SeenPairAhead =>
            /\ issues' = issues /\ records' = records /\ output' = output
            /\ diffs' = diffs /\ already_searched' = already_searched
            /\ prev_commit' = Walk[it] /\ pc' = pc]_vars

\* C1 witness: a later branch has just skipped a pair that an earlier walk
\* scanned and that gave a Finding
C1_Witness ==
    /\ lastStep = "seen_skip" /\ remote_branch >= 2 /\ it >= 3
    /\ <<Walk[it - 2], Walk[it - 1]>> \in already_searched
    /\ StampedWith(Walk[it - 2]) # {}

\* the root commit holds the secret and no commit changes the file; entropy
\* detection only, no since commit, unbounded depth
C2_Case ==
    /\ since_commit = None /\ max_depth = DefaultMaxDepth
    /\ do_entropy /\ ~do_regex
    /\ \A c \in ReachableCommits : content[c] = "secret"

\* C2: a scan of a repository whose root commit holds a high-entropy secret
\* in a file no later commit touches (entropy detection only, no since
\* commit, unbounded depth), with any number of branches, reports exactly
\* one Finding for the root commit's genesis diff.
C2_OneGenesisFinding ==
    (pc = "done" /\ C2_Case) => Cardinality(StampedWith(Root)) = 1

\* commit b inserts the secret into the clean history of its parent a, no
\* other commit changes the file, the since commit is strictly older than a,
\* every walk that visits b visits a too, and one detector is enabled
C3_Case(a, b) ==
    /\ b \in ReachableCommits /\ parents[b] = a
    /\ content[a] = "clean" /\ content[b] = "secret"
    /\ content[Root] = "clean"
    /\ \A c \in ReachableCommits \ {b, Root} : content[c] = content[parents[c]]
    /\ since_commit # None /\ since_commit # a
    /\ since_commit \in AncestorsOf(a)
    /\ \E br \in 1..Len(branches) : b \in Visited(br)
    /\ \A br \in 1..Len(branches) : b \in Visited(br) => a \in Visited(br)
    /\ do_entropy # do_regex

C4_NothingAtOrBeforeSince ==
    since_commit # None =>
        \A k \in 1..Len(issues) :
            since_commit \in Visited(issues[k].branch)
                => issues[k].commitHash \notin AncestorsOf(since_commit)

\* C5: the walk of a branch whose ancestry iteration yields no commits is a
\* no-op: no error is raised, no diff is computed, no Finding is produced,
\* and the scan goes on.
C5_EmptyBranchNoOp ==
    (lastStep = "first" /\ Walk = <<>>) =>
        /\ pc = "branches" /\ error = ""
        /\ diffs = <<>> /\ issues = <<>>

\* the rule set regex_check uses
RulesInUse == IF Len(custom_regexes) > 0 THEN custom_regexes ELSE regexes

\* C6: regex_check returns exactly one Finding for each rule that has at
\* least one match, however many matches it has, and none for a rule
\* without a match; the Finding has the rule's name as reason and all the
\* substrings the rule matched as stringsFound.
C6_OneFindingPerRule ==
    dpc = "regex_check" =>
        /\ \A r \in 1..Len(RulesInUse) :
              LET rule == RulesInUse[r]
                  m == findall(rule, w_diff[1].diff, 1)
                  OfRule(f) == f.reason = rule.name
                  fr == SelectSeq(w_found, OfRule)
              IN  /\ Len(fr) = (IF Len(m) > 0 THEN 1 ELSE 0)
                  /\ \A i \in 1..Len(fr) : fr[i].stringsFound = m
        /\ \A i \in 1..Len(w_found) :
              \E r \in 1..Len(RulesInUse) : w_found[i].reason = RulesInUse[r].name

\* the blob of the diff a Finding of diff_worker belongs to (paths are
\* distinct within a diff)
BlobOf(f) == CHOOSE k \in 1..Len(w_diff) : BlobPath(w_diff[k]) = f.path

\* C7: diff_worker returns, blob after blob in the order of the diff:
\* nothing for a binary blob; otherwise at most one "High Entropy" Finding,
\* present iff entropy detection is on and a substring is flagged, carrying
\* all flagged substrings of the blob, followed by the Findings of
\* regex_check if pattern detection is on; nothing with both detectors off.
C7_DiffWorkerConcatenation ==
    dpc = "diff_worker" =>
        /\ \A i \in 1..Len(w_found) :
              /\ \E k \in 1..Len(w_diff) : BlobPath(w_diff[k]) = w_found[i].path
              /\ ~IsBinary(w_diff[BlobOf(w_found[i])].diff)
        /\ \A i, j \in 1..Len(w_found) :
              i < j => BlobOf(w_found[i]) <= BlobOf(w_found[j])
        /\ \A k \in 1..Len(w_diff) :
              LET blob == w_diff[k]
                  OfBlob(f) == f.path = BlobPath(blob)
                  IsEntropy(f) == f.reason = "High Entropy"
                  IsPattern(f) == f.reason # "High Entropy"
                  fk == SelectSeq(w_found, OfBlob)
                  hi == SelectSeq(fk, IsEntropy)
                  pat == SelectSeq(fk, IsPattern)
                  flagged == EntropyStringsFound(blob.diff, 1)
              IN  ~IsBinary(blob.diff) =>
                     /\ Len(hi) <= 1
                     /\ Len(hi) = 1 <=> (do_entropy /\ Len(flagged) > 0)
                     /\ Len(hi) = 1 => /\ hi[1].stringsFound = flagged
                                       /\ fk[1] = hi[1]
                     /\ fk = hi \o pat
                     /\ pat = IF do_regex
                              THEN regex_check(blob.diff, CommitTime(prev_commit),
                                               remote_branch, prev_commit, blob,
                                               commitHash, custom_regexes)
                              ELSE <<>>
        /\ (~do_entropy /\ ~do_regex) => w_found = <<>>

\* C7 witness: a diff of a binary blob holding a secret and a text blob
\* that both detectors flag, both detectors on
C7_Witness ==
    /\ dpc = "diff_worker" /\ do_entropy /\ do_regex
    /\ Len(w_diff) = 2
    /\ IsBinary(w_diff[1].diff)
    /\ w_diff[2].diff = <<SecretWord>>
    /\ Len(w_found) = 2
    /\ w_found[1].reason = "High Entropy"

\* C8: a scan removes the repository directory when it returns if and only
\* if acquisition created it: a file-scheme address or a bare path without
\* force is used in place (same path, created flag false) and still exists
\* after the scan; a remote address, or a local one with force, is cloned
\* into a fresh temporary directory (created flag true) that is gone after
\* the scan.  While the scan runs the directory exists.
C8_RemoveOnlyCreated ==
    /\ pc \in {"branches", "commits"} => project_path \in dirs
    /\ pc \in {"branches", "commits", "done"} =>
          IF git_url \in {FileUrl, BarePath} /\ ~force_clone
          THEN project_path = "/repo" /\ ~project_path_created
          ELSE project_path # "/repo" /\ project_path_created
    /\ pc = "done" =>
          /\ "/repo" \in dirs
          /\ project_path \in dirs <=> ~project_path_created

\* C8 witness: the scan of a file-scheme address without force has
\* returned with Findings and the directory is still there
C8_Witness ==
    /\ pc = "done" /\ git_url = FileUrl /\ ~force_clone
    /\ project_path = "/repo" /\ "/repo" \in dirs
    /\ Len(issues) >= 1

\* C9: if the write of one Finding's record fails, the records of the
\* other Findings of the scan, before and after it, are still written and
\* listed in foundIssues, and the scan is not aborted.
C9_BestEffort ==
    failed # 0 =>
        /\ pc # "raised"
        /\ pc = "done" =>
              records = SubSeq(issues, 1, failed - 1)
                        \o SubSeq(issues, failed + 1, Len(issues))

\* C9 amended: if the write of one Finding's record fails, the records
\* written before it remain and stay listed in foundIssues, but no later
\* Finding is written or listed: the failure leaves handle_results and
\* find_strings as an exception, which ends the scan.
C9_AbortsOnFailure ==
    /\ failed # 0 =>
          /\ pc = "raised" /\ error = "IOError"
          /\ failed <= Len(issues)
          /\ records = SubSeq(issues, 1, failed - 1)
    /\ (failed = 0 /\ error = "") => records = issues
    /\ output.foundIssues = [i \in 1..Len(records) |-> i]

\* C9 witness: a write failed with records written before it and a Finding
\* of the same scan after it
C9_Witness ==
    /\ failed > 1 /\ failed < Len(issues)
    /\ Len(records) = failed - 1
    /\ pc = "raised"

\* the maximal runs of characters of the set in the word, as <<first, last>>
MaximalRuns(w, cs) ==
    {r \in (1..Len(w)) \X (1..Len(w)) :
        /\ r[1] <= r[2]
        /\ \A k \in r[1]..r[2] : InCharSet(w[k], cs)
        /\ r[1] = 1 \/ ~InCharSet(w[r[1] - 1], cs)
        /\ r[2] = Len(w) \/ ~InCharSet(w[r[2] + 1], cs)}

QualifyingRuns(w, cs, t) == {r \in MaximalRuns(w, cs) : r[2] - r[1] + 1 > t}

\* C10: get_strings_of_set returns, in order of occurrence, exactly the
\* maximal contiguous runs of characters of the set that are longer than
\* the threshold, a run that ends the word included: nothing of length at
\* most the threshold, nothing with a character outside the set, no
\* qualifying run left out or split.
C10_MaximalRuns ==
    spc = "return" =>
        LET q == QualifyingRuns(s_word, s_char_set, s_threshold)
        IN  /\ Len(s_strings) = Cardinality(q)
            /\ \A k \in 1..Len(s_strings) :
                  /\ Len(s_strings[k]) > s_threshold
                  /\ \A i \in 1..Len(s_strings[k]) :
                        InCharSet(s_strings[k][i], s_char_set)
                  /\ \E r \in q :
                        /\ s_strings[k] = SubSeq(s_word, r[1], r[2])
                        /\ Cardinality({p \in q : p[1] < r[1]}) = k - 1

\* C10 witness: a short run is dropped and a qualifying run that ends the
\* word is returned
C10_Witness ==
    /\ spc = "return" /\ s_threshold >= 1
    /\ MaximalRuns(s_word, s_char_set)
           # QualifyingRuns(s_word, s_char_set, s_threshold)
    /\ \E r \in QualifyingRuns(s_word, s_char_set, s_threshold) :
          /\ r[2] = Len(s_word)
          /\ s_strings[Len(s_strings)] = SubSeq(s_word, r[1], r[2])

\* the position in the walk w at which the since commit is reached, or
\* Len(w) + 1 if the walk does not reach it (None is no commit)
SinceIndex(w) ==
    IF \E k \in 1..Len(w) : w[k] = since_commit
    THEN CHOOSE k \in 1..Len(w) :
             /\ w[k] = since_commit
             /\ \A j \in 1..(k - 1) : w[j] # since_commit
    ELSE Len(w) + 1

\* the walk of the current branch has just completed
WalkDone == pc \in {"branches", "done"} /\ remote_branch >= 1

\* the diff <<a, b>> has been computed and every Finding detection gives
\* for it on some branch walked so far, stamped from prev, is among the
\* Findings of the scan
Detected(a, b, prev) ==
    /\ \E i \in 1..Len(diffs) : diffs[i] = <<a, b>>
    /\ \E br \in 1..remote_branch :
          LET fi == diff_worker(CommitDiff(a, b), b, prev, br, Hexsha(b),
                                custom_regexes, do_entropy, do_regex)
          IN  \A k \in 1..Len(fi) : \E j \in 1..Len(issues) : issues[j] = fi[k]

\* C11: no commit is missed.  When the walk of a branch with visited
\* commits c1 (head) .. cn completes, every consecutive pair (c_i, c_i+1)
\* whose older commit is visited before the since commit is reached (every
\* pair, with no since commit) has been through diff extraction and
\* detection at some point of the scan; with no since commit, the oldest
\* visited commit cn has been diffed against the empty tree and run through
\* detection after the last pair, as the last diff of the walk.
C11_NoCommitMissed ==
    WalkDone =>
        /\ \A i \in 1..(Len(Walk) - 1) :
              i + 1 < SinceIndex(Walk) => Detected(Walk[i], Walk[i + 1], Walk[i])
        /\ since_commit = None =>
              /\ Len(Walk) >= 1
              /\ diffs[Len(diffs)] = <<Walk[Len(Walk)], NULL_TREE>>
              /\ LET cn == Walk[Len(Walk)]
                     fi == diff_worker(CommitDiff(cn, NULL_TREE), cn, cn,
                                       remote_branch, Hexsha(cn),
                                       custom_regexes, do_entropy, do_regex)
                 IN  /\ Len(issues) >= Len(fi)
                     /\ SubSeq(issues, Len(issues) - Len(fi) + 1, Len(issues)) = fi

\* C11 witness: with no since commit, the walk of a second branch over three
\* commits has completed; its pairs were scanned by the walk of the first
\* branch, and the scan has Findings
C11_Witness ==
    /\ WalkDone /\ remote_branch = 2 /\ since_commit = None
    /\ Len(Walk) = 3
    /\ <<Walk[1], Walk[2]>> \in already_searched
    /\ Len(diffs) = 4
    /\ issues # <<>>

====
